---------------------------- MODULE Spec2Model ----------------------------
(***************************************************************************)
(* A model of indexnow_submitter.py: one run of main() after another, each *)
(* run fetching the sitemap, diffing it against the submission history,     *)
(* staging the new URLs in a file, POSTing them to the IndexNow endpoint    *)
(* and appending them to the history on success.                            *)
(*                                                                          *)
(* Strings are sequences of tokens.  A token is a character of a URL       *)
(* ("a", "b", "c"), a whitespace character (" ", "\n") or a fixed piece of  *)
(* a configured value ("https://", "yourdomain.com").  Files are token      *)
(* sequences too, so that writing url + "\n" and reading line.strip() back  *)
(* are modelled by what they do to the text.                                *)
(*                                                                          *)
(* Environment assumptions: opening, reading and writing a file succeeds    *)
(* (a missing history file is modelled); the log file is left out.          *)
(***************************************************************************)
EXTENDS Naturals, Sequences, FiniteSets, TLC

\* ----------------------------------------------------------------- bounds
\* Runs of main() in one behaviour.
MaxRuns == 3
\* 429 answers the endpoint gives to one call of submit_to_indexnow.
MaxRetries == 3
\* Nested calls of a function the interpreter allows before it raises
\* RecursionError (sys.getrecursionlimit(), 1000 by default), scaled.  The
\* call at this nesting fails in session.get or session.post, the deepest
\* calls a nested call makes.
RecursionLimit == 3
\* The request limit of submit_to_indexnow; 10,000 in the source, scaled so
\* that a batch longer than the limit is reachable.
MaxUrlsPerRequest == 2
\* Length of the sitemap list handed to get_new_urls on its own (SpecDiff).
MaxListLen == 3
\* Calls of save_submitted_urls on their own (SpecLedger).
MaxAppends == 3
\* <url> entries of each kind in a document fetched on its own (SpecFetch).
MaxEntries == 2

\* ------------------------------------------------------- strings and files
\* A local that is not assigned yet: a list, a set.
None == <<<<"None">>>>
NoneSet == {<<"None">>}

Last(s) == s[Len(s)]

Whitespace == {" ", "\n"}

Range(s) == {s[i] : i \in 1..Len(s)}

RECURSIVE LStrip(_)
LStrip(s) ==
  IF s = <<>> THEN <<>>
  ELSE IF Head(s) \in Whitespace THEN LStrip(Tail(s)) ELSE s

RECURSIVE RStrip(_)
RStrip(s) ==
  IF s = <<>> THEN <<>>
  ELSE IF s[Len(s)] \in Whitespace THEN RStrip(SubSeq(s, 1, Len(s) - 1)) ELSE s

\* str.strip()
Strip(s) == RStrip(LStrip(s))

\* Iterating a text file: the lines, each with its "\n", the last one
\* possibly without.
RECURSIVE FileLinesAcc(_, _)
FileLinesAcc(text, cur) ==
  IF text = <<>> THEN (IF cur = <<>> THEN <<>> ELSE <<cur>>)
  ELSE IF Head(text) = "\n"
       THEN <<Append(cur, "\n")>> \o FileLinesAcc(Tail(text), <<>>)
       ELSE FileLinesAcc(Tail(text), Append(cur, Head(text)))

FileLines(text) == FileLinesAcc(text, <<>>)

\* [line.strip() for line in f if line.strip()]
RECURSIVE StrippedLines(_)
StrippedLines(lines) ==
  IF lines = <<>> THEN <<>>
  ELSE IF Strip(Head(lines)) = <<>> THEN StrippedLines(Tail(lines))
       ELSE <<Strip(Head(lines))>> \o StrippedLines(Tail(lines))

\* for url in urls: f.write(url + "\n")
RECURSIVE WriteLines(_)
WriteLines(list) ==
  IF list = <<>> THEN <<>>
  ELSE Head(list) \o <<"\n">> \o WriteLines(Tail(list))

NoFile == [exists |-> FALSE, text |-> <<>>]

\* ------------------------------------------------------------ configuration
DefaultApiKey == "your-api-key-here"
DefaultSiteUrl == <<"https://", "yourdomain.com">>
DefaultSitemapUrl == <<"https://", "yourdomain.com", "/sitemap.xml">>

RootUrl == <<"https://", "example.org", "/sitemap.xml">>

Configs ==
  [API_KEY : {DefaultApiKey, "k"},
   SITE_URL : {DefaultSiteUrl, <<"https://", "example.org">>},
   SITEMAP_URL : {DefaultSitemapUrl, RootUrl}]

\* "yourdomain.com" in s
HasYourDomain(s) == \E i \in 1..Len(s) : s[i] = "yourdomain.com"

\* Mutant: the check of SITEMAP_URL is left out.
validate_configuration_NoSitemapCheck(c) ==
  IF c.API_KEY = DefaultApiKey THEN FALSE
  ELSE IF HasYourDomain(c.SITE_URL) THEN FALSE
  ELSE TRUE

validate_configuration(c) ==
  IF c.API_KEY = DefaultApiKey THEN FALSE
  ELSE IF HasYourDomain(c.SITE_URL) THEN FALSE
  ELSE IF HasYourDomain(c.SITEMAP_URL) THEN FALSE
  ELSE TRUE

\* --------------------------------------------------------------- sitemaps
\* A fetched document: how the GET and the parse ended and, when both went
\* well, the text of the <loc> of each namespaced <url> child of the root
\* (ns), of each non-namespaced <url> element (plain) and of each namespaced
\* <sitemap> child (subs).  An entry <<>> is an element with no <loc> or with
\* an empty one.
Outcomes == {"ok", "http404", "timeout", "connerr", "badxml"}
\* (and "RecursionError", which no web serves: see FetchAt)

Doc(ns, plain, subs) ==
  [outcome |-> "ok", ns |-> ns, plain |-> plain, subs |-> subs]

FailDoc(o) == [outcome |-> o, ns |-> <<>>, plain |-> <<>>, subs |-> <<>>]

\* Mutant: an entry with no <loc> text is not skipped.
RECURSIVE LocTexts_NoSkip(_)
LocTexts_NoSkip(entries) ==
  IF entries = <<>> THEN <<>>
  ELSE <<Strip(Head(entries))>> \o LocTexts_NoSkip(Tail(entries))

\* if loc_elem is not None and loc_elem.text: urls.append(loc_elem.text.strip())
RECURSIVE LocTexts(_)
LocTexts(entries) ==
  IF entries = <<>> THEN <<>>
  ELSE IF Head(entries) = <<>> THEN LocTexts(Tail(entries))
       ELSE <<Strip(Head(entries))>> \o LocTexts(Tail(entries))

\* The result of fetch_sitemap_urls(sitemap_url) on the web w: the list it
\* returns and the GETs it made, in order.
\* What a call of fetch_sitemap_urls nested d deep in calls of itself
\* returns on the web w, and the session.get calls made, in order.  At the
\* recursion limit session.get raises RecursionError: Exception is caught.
RECURSIVE FetchAt(_, _, _)
RECURSIVE FetchSubSitemaps(_, _, _)

\* Mutant: the sub-sitemaps are followed whether or not the document has
\* URL entries of its own.
FetchAt_AlwaysFollows(w, sitemap_url, d) ==
  LET doc == IF d >= RecursionLimit THEN FailDoc("RecursionError")
             ELSE IF sitemap_url \in DOMAIN w THEN w[sitemap_url]
             ELSE FailDoc("connerr")
  IN IF doc.outcome # "ok"
     THEN [urls |-> <<>>, gets |-> <<sitemap_url>>]
     ELSE LET withNs == LocTexts(doc.ns)
              urls == IF withNs = <<>> THEN LocTexts(doc.plain) ELSE withNs
              sub == FetchSubSitemaps(w, doc.subs, d)
          IN [urls |-> urls \o sub.urls, gets |-> <<sitemap_url>> \o sub.gets]

\* Mutant: a visited check, a sitemap already on the call path is not
\* fetched again (here: no nested call below the first level).
FetchAt_StopsAtRepeat(w, sitemap_url, d) ==
  LET doc == IF d >= RecursionLimit THEN FailDoc("RecursionError")
             ELSE IF sitemap_url \in DOMAIN w THEN w[sitemap_url]
             ELSE FailDoc("connerr")
  IN IF doc.outcome # "ok"
     THEN [urls |-> <<>>, gets |-> <<sitemap_url>>]
     ELSE LET withNs == LocTexts(doc.ns)
              urls == IF withNs = <<>> THEN LocTexts(doc.plain) ELSE withNs
              sub == IF urls = <<>> /\ d = 0
                     THEN FetchSubSitemaps(w, doc.subs, d)
                     ELSE [urls |-> <<>>, gets |-> <<>>]
          IN [urls |-> urls \o sub.urls, gets |-> <<sitemap_url>> \o sub.gets]

FetchAt(w, sitemap_url, d) ==
  LET doc == IF d >= RecursionLimit THEN FailDoc("RecursionError")
             ELSE IF sitemap_url \in DOMAIN w THEN w[sitemap_url]
             ELSE FailDoc("connerr")
  IN IF doc.outcome # "ok"
     THEN [urls |-> <<>>, gets |-> <<sitemap_url>>]
     ELSE LET withNs == LocTexts(doc.ns)
              urls == IF withNs = <<>> THEN LocTexts(doc.plain) ELSE withNs
              sub == IF urls = <<>> THEN FetchSubSitemaps(w, doc.subs, d)
                     ELSE [urls |-> <<>>, gets |-> <<>>]
          IN [urls |-> urls \o sub.urls, gets |-> <<sitemap_url>> \o sub.gets]

\* Mutant: the loop ends at the first sub-sitemap that gives no URL.
FetchSubSitemaps_StopsAtFailure(w, subs, d) ==
  IF subs = <<>> THEN [urls |-> <<>>, gets |-> <<>>]
  ELSE IF Head(subs) = <<>> THEN FetchSubSitemaps(w, Tail(subs), d)
       ELSE LET first == FetchAt(w, Strip(Head(subs)), d + 1)
                rest == IF first.urls = <<>> THEN [urls |-> <<>>, gets |-> <<>>]
                        ELSE FetchSubSitemaps(w, Tail(subs), d)
            IN [urls |-> first.urls \o rest.urls,
                gets |-> first.gets \o rest.gets]

\* The loop over the <sitemap> entries of a document fetched d deep.
FetchSubSitemaps(w, subs, d) ==
  IF subs = <<>> THEN [urls |-> <<>>, gets |-> <<>>]
  ELSE IF Head(subs) = <<>> THEN FetchSubSitemaps(w, Tail(subs), d)
       ELSE LET first == FetchAt(w, Strip(Head(subs)), d + 1)
                rest == FetchSubSitemaps(w, Tail(subs), d)
            IN [urls |-> first.urls \o rest.urls,
                gets |-> first.gets \o rest.gets]

\* fetch_sitemap_urls(sitemap_url) as main calls it.
fetch_sitemap_urls(w, sitemap_url) == FetchAt(w, sitemap_url, 0)

\* The <loc> texts the modelled sitemaps are written with.
LocA == <<"a">>
LocB == <<"b">>
LocC == <<"c">>
LocAB == <<"a", "\n", "b">>
LocPadA == <<" ", "a", "\n">>
LocBlank == <<" ">>
LocMissing == <<>>

Sub1 == <<"/s1.xml">>
Sub2 == <<"/s2.xml">>
Sub3 == <<"/s3.xml">>

NsLists ==
  {<<>>, <<LocA>>, <<LocA, LocB>>, <<LocA, LocB, LocC>>, <<LocAB>>,
   <<LocAB, LocC>>, <<LocPadA, LocA>>, <<LocBlank>>, <<LocMissing, LocB>>}

PlainLists == {<<>>, <<LocC>>}

SubDocs1 == {FailDoc("http404"), Doc(<<LocA>>, <<>>, <<>>),
             Doc(<<>>, <<>>, <<Sub2>>)}

SubDocs2 == {FailDoc("badxml"), Doc(<<LocB, LocC>>, <<>>, <<>>)}

\* The webs a run may meet: the root sitemap fails, is a URL set, or is a
\* sitemap index over /s1.xml and /s2.xml.  No sitemap refers to itself.
FailWebs == {(RootUrl :> FailDoc(o)) : o \in Outcomes \ {"ok"}}

LeafWebs ==
  {(RootUrl :> Doc(ns, plain, <<Sub1>>)) @@ (Sub1 :> Doc(<<LocC>>, <<>>, <<>>))
     : ns \in NsLists, plain \in PlainLists}

IndexWebs ==
  {(RootUrl :> Doc(<<>>, <<>>, <<<<" ", "/s1.xml">>, LocMissing, Sub2>>))
     @@ (Sub1 :> d1) @@ (Sub2 :> d2) : d1 \in SubDocs1, d2 \in SubDocs2}

\* A sitemap index over three URL sets, any of which may fail.
SubDocsFirst == {FailDoc("timeout"), Doc(<<LocA>>, <<>>, <<>>)}

SubDocsMiddle ==
  {FailDoc(o) : o \in Outcomes \ {"ok"}} \cup {Doc(<<LocB>>, <<>>, <<>>)}

SubDocsLast == {FailDoc("connerr"), Doc(<<LocC>>, <<>>, <<>>)}

TripleWebs ==
  {(RootUrl :> Doc(<<>>, <<>>, <<Sub1, Sub2, Sub3>>))
     @@ (Sub1 :> d1) @@ (Sub2 :> d2) @@ (Sub3 :> d3) :
     d1 \in SubDocsFirst, d2 \in SubDocsMiddle, d3 \in SubDocsLast}

Webs == FailWebs \cup LeafWebs \cup IndexWebs \cup TripleWebs

\* ------------------------------------------------ ledger, diff and staging
\* load_submitted_urls(): set() when the file is missing.
load_submitted_urls(file) ==
  IF file.exists THEN Range(StrippedLines(FileLines(file.text))) ELSE {}

\* Mutant: the file is opened with "w".
save_submitted_urls_Overwrites(file, list) ==
  [exists |-> TRUE, text |-> WriteLines(list)]

\* save_submitted_urls(urls): open(..., "a") and a line per URL.
save_submitted_urls(file, list) ==
  [exists |-> TRUE, text |-> file.text \o WriteLines(list)]

\* save_urls_to_file(urls, URLS_FILE): open(..., "w") and a line per URL.
save_urls_to_file(list) == [exists |-> TRUE, text |-> WriteLines(list)]

\* load_urls_from_file(URLS_FILE)
load_urls_from_file(file) ==
  IF file.exists THEN StrippedLines(FileLines(file.text)) ELSE <<>>

\* The lists with each element of S once: list(S) for a set S, whose order
\* Python does not fix.
ListsOf(S) ==
  {l \in [1..Cardinality(S) -> S] : \A i, j \in 1..Cardinality(S) :
                                      l[i] = l[j] => i = j}

\* Mutant: a filter of the list instead of a set difference.
get_new_urls_KeepsDuplicates(all, submitted) ==
  {SelectSeq(all, LAMBDA u : u \notin submitted)}

\* get_new_urls(all_urls, submitted_urls): the lists it may return.
get_new_urls(all, submitted) == ListsOf(Range(all) \ submitted)

\* ------------------------------------------------------- submission client
\* Mutant: the whole list is sent, whatever its length.
Truncate_SendsAll(list) == list

\* submit_to_indexnow, from its entry to the POST: urls = urls[:10000].
Truncate(list) ==
  IF Len(list) > MaxUrlsPerRequest THEN SubSeq(list, 1, MaxUrlsPerRequest)
  ELSE list

SuccessStatuses == {"200", "202"}
RejectStatuses == {"400", "403", "422", "500"}
TransportFailures == {"timeout", "connerr"}

\* What main() hands to save_submitted_urls after a successful submit.
SavedAfterSuccess(toSubmit, sent) == toSubmit

\* ------------------------------------------------------------------- state
VARIABLES
  config,          \* API_KEY, SITE_URL, SITEMAP_URL of the current run
  web,             \* the sitemaps the current run finds, <<>> before the fetch
  pc,              \* where main() is
  run,             \* runs started so far
  all_urls,        \* main's locals: None, NoneSet (submitted_urls) and
  submitted_urls,  \* FALSE (success) while unassigned
  new_urls,
  urls_to_submit,
  success,
  urls,            \* submit_to_indexnow's urls, in the innermost call
  depth,           \* nesting of submit_to_indexnow's calls of itself
  waits,           \* time.sleep(300) calls of the current run
  submittedFile,   \* SUBMITTED_URLS_FILE
  urlsFile,        \* URLS_FILE
  gets,            \* sitemap GETs of the current run
  posts,           \* POSTs of the current run, each with its answer
  okUrls,          \* URLs of the urlList of a POST answered 200 or 202, ever
  ledgerBefore,    \* SUBMITTED_URLS_FILE when the current run started
  urlsFileBefore,  \* URLS_FILE when the current run started
  prevRun          \* the run before: what it fetched, and whether it ended with the
                   \* history updated

vars == <<config, web, pc, run, all_urls, submitted_urls, new_urls,
          urls_to_submit, success, urls, depth, waits, submittedFile,
          urlsFile, gets, posts, okUrls, ledgerBefore, urlsFileBefore,
          prevRun>>

locals == <<all_urls, submitted_urls, new_urls, urls_to_submit, success>>
call == <<urls, depth, waits>>
files == <<submittedFile, urlsFile>>
network == <<gets, posts, okUrls>>
runStart == <<config, run, ledgerBefore, urlsFileBefore, prevRun>>

NoRun == [all_urls |-> None, appended |-> FALSE, okList |-> <<>>]

Init ==
  /\ config \in Configs
  /\ web = <<>>
  /\ pc = "idle"
  /\ run = 0
  /\ all_urls = None
  /\ submitted_urls = NoneSet
  /\ new_urls = None
  /\ urls_to_submit = None
  /\ success = FALSE
  /\ urls = None
  /\ depth = 0
  /\ waits = 0
  /\ submittedFile = NoFile
  /\ urlsFile = NoFile
  /\ gets = <<>>
  /\ posts = <<>>
  /\ okUrls = {}
  /\ ledgerBefore = NoFile
  /\ urlsFileBefore = NoFile
  /\ prevRun = NoRun

\* The script is started; between runs the user may edit the configuration.
Begin(prev) ==
  /\ run < MaxRuns
  /\ \E c \in Configs : config' = c
  /\ run' = run + 1
  /\ pc' = "validate"
  /\ web' = <<>>
  /\ all_urls' = None
  /\ submitted_urls' = NoneSet
  /\ new_urls' = None
  /\ urls_to_submit' = None
  /\ success' = FALSE
  /\ urls' = None
  /\ depth' = 0
  /\ waits' = 0
  /\ gets' = <<>>
  /\ posts' = <<>>
  /\ ledgerBefore' = submittedFile
  /\ urlsFileBefore' = urlsFile
  /\ prevRun' = prev
  /\ UNCHANGED <<files, okUrls>>

\* The script is started, for the first time or after a run that has ended.
StartRun ==
  /\ pc \in {"idle", "done"}
  /\ Begin([all_urls |-> all_urls, appended |-> (pc = "done" /\ success),
            okList |-> <<>>])

\* main, lines 329-333
Validate ==
  /\ pc = "validate"
  /\ pc' = IF validate_configuration(config) THEN "fetch" ELSE "done"
  /\ UNCHANGED <<web, locals, call, files, network, runStart>>

\* main, lines 335-342
FetchFrom(W) ==
  /\ pc = "fetch"
  /\ \E w \in W :
       LET r == fetch_sitemap_urls(w, config.SITEMAP_URL)
       IN /\ web' = w
          /\ all_urls' = r.urls
          /\ gets' = r.gets
          /\ pc' = IF r.urls = <<>> THEN "done" ELSE "load"
  /\ UNCHANGED <<submitted_urls, new_urls, urls_to_submit, success, call,
                 files, posts, okUrls, runStart>>

Fetch == FetchFrom(Webs)

\* main, lines 346-348
LoadLedger ==
  /\ pc = "load"
  /\ submitted_urls' = load_submitted_urls(submittedFile)
  /\ pc' = "diff"
  /\ UNCHANGED <<web, all_urls, new_urls, urls_to_submit, success, call,
                 files, network, runStart>>

\* Mutant: no early return when there is no new URL.
Diff_NoEarlyExit ==
  /\ pc = "diff"
  /\ \E l \in get_new_urls(all_urls, submitted_urls) :
       /\ new_urls' = l
       /\ pc' = "stage"
  /\ UNCHANGED <<web, all_urls, submitted_urls, urls_to_submit, success,
                 call, files, network, runStart>>

\* main, lines 350-357
Diff ==
  /\ pc = "diff"
  /\ \E l \in get_new_urls(all_urls, submitted_urls) :
       /\ new_urls' = l
       /\ pc' = IF l = <<>> THEN "done" ELSE "stage"
  /\ UNCHANGED <<web, all_urls, submitted_urls, urls_to_submit, success,
                 call, files, network, runStart>>

\* main, lines 361-366
Stage ==
  /\ pc = "stage"
  /\ urlsFile' = save_urls_to_file(new_urls)
  /\ pc' = "reload"
  /\ UNCHANGED <<web, locals, call, submittedFile, network, runStart>>

\* main, lines 368-375
Reload ==
  /\ pc = "reload"
  /\ urls_to_submit' = load_urls_from_file(urlsFile)
  /\ pc' = IF urls_to_submit' = <<>> THEN "done" ELSE "submit"
  /\ UNCHANGED <<web, all_urls, submitted_urls, new_urls, success, call,
                 files, network, runStart>>

\* Mutant: the history is updated before the POST is made.
SubmitCall_SavesFirst ==
  /\ pc = "submit"
  /\ IF urls_to_submit = <<>>
     THEN /\ success' = FALSE
          /\ pc' = "step7"
          /\ UNCHANGED <<urls, submittedFile>>
     ELSE /\ urls' = Truncate(urls_to_submit)
          /\ submittedFile' = save_submitted_urls(submittedFile, urls_to_submit)
          /\ pc' = "post"
          /\ UNCHANGED success
  /\ UNCHANGED <<web, all_urls, submitted_urls, new_urls, urls_to_submit,
                 depth, waits, urlsFile, network, runStart>>

\* main, line 379, and submit_to_indexnow, lines 244-252
SubmitCall ==
  /\ pc = "submit"
  /\ IF urls_to_submit = <<>>
     THEN /\ success' = FALSE
          /\ pc' = "step7"
          /\ UNCHANGED urls
     ELSE /\ urls' = Truncate(urls_to_submit)
          /\ pc' = "post"
          /\ UNCHANGED success
  /\ UNCHANGED <<web, all_urls, submitted_urls, new_urls, urls_to_submit,
                 depth, waits, files, network, runStart>>

\* submit_to_indexnow, lines 262-269: the POST is answered 200 or 202
PostSuccess ==
  /\ pc = "post"
  /\ depth < RecursionLimit
  /\ \E status \in SuccessStatuses :
       posts' = Append(posts, [urlList |-> urls, status |-> status])
  /\ okUrls' = okUrls \cup Range(urls)
  /\ success' = TRUE
  /\ pc' = "step7"
  /\ UNCHANGED <<web, all_urls, submitted_urls, new_urls, urls_to_submit,
                 call, files, gets, runStart>>

\* submit_to_indexnow, lines 270-281 and 287-289: 400, 403, 422, any other
PostRejected ==
  /\ pc = "post"
  /\ depth < RecursionLimit
  /\ \E status \in RejectStatuses :
       posts' = Append(posts, [urlList |-> urls, status |-> status])
  /\ success' = FALSE
  /\ pc' = "step7"
  /\ UNCHANGED <<web, all_urls, submitted_urls, new_urls, urls_to_submit,
                 call, files, gets, okUrls, runStart>>

\* Mutant: the retry is made at once, without the cooldown.
PostRateLimited_NoSleep ==
  /\ pc = "post"
  /\ depth < RecursionLimit
  /\ depth < MaxRetries
  /\ posts' = Append(posts, [urlList |-> urls, status |-> "429"])
  /\ depth' = depth + 1
  /\ urls' = Truncate(urls)
  /\ pc' = "post"
  /\ UNCHANGED <<web, locals, waits, files, gets, okUrls, runStart>>

\* Mutant: the retry is made in a loop, not by a nested call.
PostRateLimited_RetriesInLoop ==
  /\ pc = "post"
  /\ depth < RecursionLimit
  /\ depth < MaxRetries
  /\ posts' = Append(posts, [urlList |-> urls, status |-> "429"])
  /\ waits' = waits + 1
  /\ urls' = Truncate(urls)
  /\ pc' = "post"
  /\ UNCHANGED <<web, locals, depth, files, gets, okUrls, runStart>>

\* Mutant: 429 is reported as a failure, without a retry.
PostRateLimited_GivesUp ==
  /\ pc = "post"
  /\ depth < RecursionLimit
  /\ depth < MaxRetries
  /\ posts' = Append(posts, [urlList |-> urls, status |-> "429"])
  /\ success' = FALSE
  /\ pc' = "step7"
  /\ UNCHANGED <<web, all_urls, submitted_urls, new_urls, urls_to_submit,
                 call, files, gets, okUrls, runStart>>

\* submit_to_indexnow, lines 282-286: 429, the sleep, and the entry of the
\* call of itself (lines 244-252) with the urls it just posted
PostRateLimited ==
  /\ pc = "post"
  /\ depth < RecursionLimit
  /\ depth < MaxRetries
  /\ posts' = Append(posts, [urlList |-> urls, status |-> "429"])
  /\ waits' = waits + 1
  /\ depth' = depth + 1
  /\ urls' = Truncate(urls)
  /\ pc' = "post"
  /\ UNCHANGED <<web, locals, files, gets, okUrls, runStart>>

\* submit_to_indexnow, lines 291-298: session.post raises
PostFailed ==
  /\ pc = "post"
  /\ depth < RecursionLimit
  /\ \E status \in TransportFailures :
       posts' = Append(posts, [urlList |-> urls, status |-> status])
  /\ success' = FALSE
  /\ pc' = "step7"
  /\ UNCHANGED <<web, all_urls, submitted_urls, new_urls, urls_to_submit,
                 call, files, gets, okUrls, runStart>>

\* submit_to_indexnow, lines 264 and 294-298: at the interpreter's recursion
\* limit session.post raises RecursionError, which except Exception catches
PostRecursionError ==
  /\ pc = "post"
  /\ depth = RecursionLimit
  /\ posts' = Append(posts, [urlList |-> urls, status |-> "RecursionError"])
  /\ success' = FALSE
  /\ pc' = "step7"
  /\ UNCHANGED <<web, all_urls, submitted_urls, new_urls, urls_to_submit,
                 call, files, gets, okUrls, runStart>>

\* Mutant: the history is updated whatever submit returned.
Step7_AlwaysSaves ==
  /\ pc = "step7"
  /\ submittedFile' = save_submitted_urls(submittedFile, urls_to_submit)
  /\ pc' = "done"
  /\ UNCHANGED <<web, locals, call, urlsFile, network, runStart>>

\* main, lines 381-387
Step7 ==
  /\ pc = "step7"
  /\ submittedFile' =
       IF success
       THEN save_submitted_urls(submittedFile,
                                SavedAfterSuccess(urls_to_submit, urls))
       ELSE submittedFile
  /\ pc' = "done"
  /\ UNCHANGED <<web, locals, call, urlsFile, network, runStart>>

Next ==
  \/ StartRun
  \/ Validate
  \/ Fetch
  \/ LoadLedger
  \/ Diff
  \/ Stage
  \/ Reload
  \/ SubmitCall
  \/ PostSuccess
  \/ PostRejected
  \/ PostRateLimited
  \/ PostFailed
  \/ PostRecursionError
  \/ Step7

Spec == Init /\ [][Next]_vars

\* ------------------------------------------------- runs that are terminated
\* The sitemaps of the runs that may be terminated.
CrashWebs ==
  {(RootUrl :> Doc(ns, <<>>, <<>>)) :
     ns \in {<<LocA>>, <<LocA, LocB>>, <<LocA, LocB, LocC>>}}
    \cup {(RootUrl :> FailDoc("timeout"))}

FetchUnderCrash == FetchFrom(CrashWebs)

\* The process is terminated between two statements of main().
Terminate ==
  /\ pc \in {"validate", "fetch", "load", "diff", "stage", "reload", "submit",
              "post", "step7"}
  /\ pc' = "killed"
  /\ UNCHANGED <<web, locals, call, files, network, runStart>>

\* The process is terminated inside save_urls_to_file, lines 200-202: the
\* file was opened with "w" and holds the lines written out so far.
TerminateInStage ==
  /\ pc = "stage"
  /\ \E k \in 0..(Len(new_urls) - 1) :
       urlsFile' = save_urls_to_file(SubSeq(new_urls, 1, k))
  /\ pc' = "killed"
  /\ UNCHANGED <<web, locals, call, submittedFile, network, runStart>>

\* The process is terminated inside save_submitted_urls, lines 160-163: the
\* file was opened with "a" and has got the lines written out so far (the
\* text layer hands each f.write(url + "\n") down whole).
TerminateInAppend ==
  /\ pc = "step7"
  /\ success
  /\ \E k \in 0..(Len(urls_to_submit) - 1) :
       submittedFile' =
         save_submitted_urls(submittedFile, SubSeq(urls_to_submit, 1, k))
  /\ pc' = "killed"
  /\ UNCHANGED <<web, locals, call, urlsFile, network, runStart>>

\* The script is started after a run that was terminated; okList is the
\* urlList that run had POSTed with answer 200 or 202 when it was terminated
\* before it wrote to the history.
Restart ==
  /\ pc = "killed"
  /\ Begin([all_urls |-> all_urls, appended |-> FALSE,
            okList |-> IF success /\ submittedFile = ledgerBefore
                       THEN urls ELSE <<>>])

NextCrash ==
  \/ StartRun
  \/ Restart
  \/ Validate
  \/ FetchUnderCrash
  \/ LoadLedger
  \/ Diff
  \/ Stage
  \/ Reload
  \/ SubmitCall
  \/ PostSuccess
  \/ PostRejected
  \/ PostRateLimited
  \/ PostFailed
  \/ PostRecursionError
  \/ Step7
  \/ Terminate
  \/ TerminateInStage
  \/ TerminateInAppend

SpecCrash == Init /\ [][NextCrash]_vars

\* ------------------------------------------- get_new_urls on its own inputs
DiffUrls == {LocA, LocB, LocC}

DiffLists == UNION {[1..n -> DiffUrls] : n \in 0..MaxListLen}

ValidConfig ==
  [API_KEY |-> "k", SITE_URL |-> <<"https://", "example.org">>,
   SITEMAP_URL |-> RootUrl]

\* main() about to call get_new_urls, with any list and any history.
InitDiff ==
  /\ config = ValidConfig
  /\ web = <<>>
  /\ pc = "diff"
  /\ run = 1
  /\ all_urls \in DiffLists
  /\ submitted_urls \in SUBSET DiffUrls
  /\ new_urls = None
  /\ urls_to_submit = None
  /\ success = FALSE
  /\ urls = None
  /\ depth = 0
  /\ waits = 0
  /\ submittedFile = NoFile
  /\ urlsFile = NoFile
  /\ gets = <<>>
  /\ posts = <<>>
  /\ okUrls = {}
  /\ ledgerBefore = NoFile
  /\ urlsFileBefore = NoFile
  /\ prevRun = NoRun

NextDiff == Diff

SpecDiff == InitDiff /\ [][NextDiff]_vars

\* ------------------------------------------- fetch_sitemap_urls on its own
EntryTexts == {LocA, LocB, LocAB, LocPadA, LocBlank, LocMissing}

EntryLists == UNION {[1..n -> EntryTexts] : n \in 0..MaxEntries}

\* The root is a URL set: it has no <sitemap> entry.
LeafOnlyWebs ==
  {(RootUrl :> Doc(ns, plain, <<>>)) : ns \in EntryLists, plain \in EntryLists}

LeafChoices ==
  {Doc(<<LocA>>, <<>>, <<>>), Doc(<<LocB, LocPadA>>, <<LocC>>, <<>>),
   Doc(<<LocMissing>>, <<LocC, LocA>>, <<>>), Doc(<<>>, <<>>, <<>>)}

SubLists ==
  {<<Sub1>>, <<Sub1, Sub2>>, <<Sub2, Sub1>>, <<Sub1, Sub1>>,
   <<Sub1, LocMissing, Sub2, Sub3>>, <<<<" ", "/s3.xml", "\n">>, Sub2>>}

\* The root has <sitemap> entries, each the location of a URL set.
IndexOfLeavesWebs ==
  {(RootUrl :> Doc(ns, plain, subs)) @@ (Sub1 :> d1) @@ (Sub2 :> d2)
     @@ (Sub3 :> d3) :
     ns \in {<<>>, <<LocA>>}, plain \in {<<>>, <<LocB>>}, subs \in SubLists,
     d1 \in LeafChoices, d2 \in LeafChoices, d3 \in LeafChoices}

\* A sitemap index refers to itself, directly or through /s1.xml.
CycleWebs ==
  {(RootUrl :> Doc(<<>>, <<>>, <<RootUrl>>)),
   (RootUrl :> Doc(<<>>, <<>>, <<RootUrl, Sub2>>))
     @@ (Sub2 :> Doc(<<LocA>>, <<>>, <<>>)),
   (RootUrl :> Doc(<<>>, <<>>, <<RootUrl, RootUrl>>)),
   (RootUrl :> Doc(<<>>, <<>>, <<Sub1>>))
     @@ (Sub1 :> Doc(<<>>, <<>>, <<RootUrl>>)),
   (RootUrl :> Doc(<<>>, <<>>, <<Sub2, Sub1>>))
     @@ (Sub1 :> Doc(<<>>, <<>>, <<Sub1>>))
     @@ (Sub2 :> Doc(<<LocB>>, <<>>, <<>>))}

FetchWebs == LeafOnlyWebs \cup IndexOfLeavesWebs \cup CycleWebs

\* fetch_sitemap_urls(SITEMAP_URL) is about to be called on any of the webs.
InitFetch ==
  /\ config = ValidConfig
  /\ web \in FetchWebs
  /\ pc = "crawl"
  /\ run = 1
  /\ all_urls = None
  /\ submitted_urls = NoneSet
  /\ new_urls = None
  /\ urls_to_submit = None
  /\ success = FALSE
  /\ urls = None
  /\ depth = 0
  /\ waits = 0
  /\ submittedFile = NoFile
  /\ urlsFile = NoFile
  /\ gets = <<>>
  /\ posts = <<>>
  /\ okUrls = {}
  /\ ledgerBefore = NoFile
  /\ urlsFileBefore = NoFile
  /\ prevRun = NoRun

\* all_urls = fetch_sitemap_urls(SITEMAP_URL)
Crawl ==
  /\ pc = "crawl"
  /\ LET r == fetch_sitemap_urls(web, config.SITEMAP_URL)
     IN /\ all_urls' = r.urls
        /\ gets' = r.gets
  /\ pc' = "crawled"
  /\ UNCHANGED <<web, submitted_urls, new_urls, urls_to_submit, success, call,
                 files, posts, okUrls, runStart>>

NextFetch == Crawl

SpecFetch == InitFetch /\ [][NextFetch]_vars

\* ------------------------------------------ submit_to_indexnow on its own
SubmitLists == UNION {[1..n -> {LocA, LocB, LocC}] : n \in 0..MaxListLen}

\* submit_to_indexnow(urls) is about to be called with any list.
InitSubmit ==
  /\ config = ValidConfig
  /\ web = <<>>
  /\ pc = "submit"
  /\ run = 1
  /\ all_urls = None
  /\ submitted_urls = NoneSet
  /\ new_urls = None
  /\ urls_to_submit \in SubmitLists
  /\ success = FALSE
  /\ urls = None
  /\ depth = 0
  /\ waits = 0
  /\ submittedFile = NoFile
  /\ urlsFile = NoFile
  /\ gets = <<>>
  /\ posts = <<>>
  /\ okUrls = {}
  /\ ledgerBefore = NoFile
  /\ urlsFileBefore = NoFile
  /\ prevRun = NoRun

NextSubmit ==
  \/ SubmitCall
  \/ PostSuccess
  \/ PostRejected
  \/ PostRateLimited
  \/ PostFailed
  \/ PostRecursionError

SpecSubmit == InitSubmit /\ [][NextSubmit]_vars

\* ------------------------------------------------- the ledger on its own
\* The lists main() can hand to save_submitted_urls: what load_urls_from_file
\* reads back from a staged list of URLs, when that is not empty.
StagedUrls == {LocA, LocB, LocAB, <<>>}

AppendLists ==
  {load_urls_from_file(save_urls_to_file(l)) :
     l \in UNION {[1..n -> StagedUrls] : n \in 1..2}} \ {<<>>}

InitLedger ==
  /\ config = ValidConfig
  /\ web = <<>>
  /\ pc = "ledger"
  /\ run = 0
  /\ all_urls = None
  /\ submitted_urls = NoneSet
  /\ new_urls = None
  /\ urls_to_submit = None
  /\ success = FALSE
  /\ urls = None
  /\ depth = 0
  /\ waits = 0
  /\ submittedFile = NoFile
  /\ urlsFile = NoFile
  /\ gets = <<>>
  /\ posts = <<>>
  /\ okUrls = {}
  /\ ledgerBefore = NoFile
  /\ urlsFileBefore = NoFile
  /\ prevRun = NoRun

\* save_submitted_urls(l); run counts the appends.
LedgerAppend ==
  /\ pc = "ledger"
  /\ run < MaxAppends
  /\ \E l \in AppendLists :
       /\ urls_to_submit' = l
       /\ submittedFile' = save_submitted_urls(submittedFile, l)
  /\ ledgerBefore' = submittedFile
  /\ run' = run + 1
  /\ UNCHANGED <<config, web, pc, all_urls, submitted_urls, new_urls, success,
                 call, urlsFile, network, urlsFileBefore, prevRun>>

\* submitted_urls = load_submitted_urls()
LedgerLoad ==
  /\ pc = "ledger"
  /\ submitted_urls' = load_submitted_urls(submittedFile)
  /\ UNCHANGED <<config, web, pc, all_urls, new_urls, urls_to_submit, success,
                 call, files, network, run, ledgerBefore, urlsFileBefore,
                 prevRun>>

NextLedger == LedgerAppend \/ LedgerLoad

SpecLedger == InitLedger /\ [][NextLedger]_vars

\* ------------------------------------------------------------------ claims
Returned == pc \in {"step7", "done"} /\ posts # <<>>

Ledger == load_submitted_urls(submittedFile)

\* C1: when a successful run had more than MaxUrlsPerRequest URLs to submit,
\* the POST carried the first MaxUrlsPerRequest of them and the ledger was
\* appended with exactly those.
C1_LedgerGetsOnlyTheSentUrls ==
  (pc = "done" /\ success /\ Len(urls_to_submit) > MaxUrlsPerRequest) =>
    /\ Last(posts).urlList = SubSeq(urls_to_submit, 1, MaxUrlsPerRequest)
    /\ submittedFile.text =
         ledgerBefore.text
           \o WriteLines(SubSeq(urls_to_submit, 1, MaxUrlsPerRequest))

\* C2: in every reachable state, every URL of the persisted ledger was in
\* the urlList of a POST answered 200 or 202.
C2_LedgerWithinSubmitted == Ledger \subseteq okUrls

\* C3: no step marks a URL as done in the ledger unless the URL has been in
\* the urlList of a successfully answered POST (a URL marked without it is
\* never notified later, since the diff drops it from every later run).
C3_MarkedOnlyWhenNotified ==
  [][\A u \in load_submitted_urls(submittedFile') \ Ledger : u \in okUrls']_vars

\* C4: a POST is followed by another one only when it was answered 429; when
\* the last answer is not 200/202, submit returns failure and the ledger a
\* later load sees is the ledger the run started with; the ledger changes
\* only after submit returned success in the same run.
C4_FailureLeavesLedger ==
  /\ \A i \in 1..(Len(posts) - 1) : posts[i].status = "429"
  /\ (Returned /\ Last(posts).status \notin SuccessStatuses) =>
       /\ ~success
       /\ Ledger = load_submitted_urls(ledgerBefore)
       /\ submittedFile = ledgerBefore
  /\ submittedFile # ledgerBefore =>
       /\ pc = "done" /\ success
       /\ posts # <<>> /\ Last(posts).status \in SuccessStatuses

C4_Witness ==
  /\ pc = "done"
  /\ Len(posts) = 1
  /\ posts[1].status = "403"
  /\ ledgerBefore.text # <<>>
  /\ submittedFile = ledgerBefore

\* C5: no URL of the ledger as loaded at the start of a run is in the
\* urlList of a POST of that run.
C5_NoResubmission ==
  \A i \in 1..Len(posts) : Range(posts[i].urlList) \cap submitted_urls = {}

\* C6: when submit is answered n times 429 and then 200 or 202, it returns
\* success after n cooldown waits and n + 1 POSTs, each with the same
\* urlList: the staged batch cut to the request limit.
C6_RetriesSameBatch ==
  (Returned /\ Last(posts).status \in SuccessStatuses) =>
    /\ success
    /\ \A i \in 1..(Len(posts) - 1) : posts[i].status = "429"
    /\ waits = Len(posts) - 1
    /\ \A i \in 1..Len(posts) : posts[i].urlList = Truncate(urls_to_submit)

C6_Witness ==
  /\ pc = "done"
  /\ success
  /\ Len(posts) = 3
  /\ posts[1].status = "429"
  /\ posts[2].status = "429"
  /\ posts[3].status = "200"
  /\ waits = 2
  /\ Len(urls_to_submit) > MaxUrlsPerRequest

\* C7: when the fetch yields no URL, or the diff yields no new URL, the run
\* has ended there, with no POST made and the ledger file as it was.
C7_NothingNewNoPost ==
  (all_urls = <<>> \/ new_urls = <<>>) =>
    /\ pc = "done"
    /\ posts = <<>>
    /\ submittedFile = ledgerBefore

C7_Witness ==
  /\ pc = "done"
  /\ all_urls # <<>>
  /\ all_urls # None
  /\ new_urls = <<>>
  /\ Range(all_urls) \subseteq submitted_urls

\* C8: a run started with the placeholder API key, site URL or sitemap URL
\* makes no sitemap GET and no POST and leaves both files as they were.
C8_PlaceholderAborts ==
  (/\ pc # "idle"
   /\ \/ config.API_KEY = DefaultApiKey
      \/ config.SITE_URL = DefaultSiteUrl
      \/ config.SITEMAP_URL = DefaultSitemapUrl) =>
    /\ pc \in {"validate", "done"}
    /\ gets = <<>>
    /\ posts = <<>>
    /\ submittedFile = ledgerBefore
    /\ urlsFile = urlsFileBefore

C8_Witness ==
  /\ pc = "done"
  /\ config.API_KEY # DefaultApiKey
  /\ config.SITE_URL # DefaultSiteUrl
  /\ config.SITEMAP_URL = DefaultSitemapUrl
  /\ ledgerBefore.text # <<>>
  /\ urlsFileBefore.text # <<>>

\* C9 as stated: a call of submit that was answered 429 at least once
\* returns failure only when its last attempt ended in a timeout or another
\* transport failure.
C9_FailureOnlyByTransport ==
  (Returned /\ ~success /\ \E i \in 1..Len(posts) : posts[i].status = "429")
    => Last(posts).status \in TransportFailures

\* C9 as amended: a call of submit that was answered 429 at least once
\* returns failure only when a retried attempt ends in an exception (a
\* transport failure, or the RecursionError of a retry nested as deep as the
\* interpreter allows) or in an answer other than 200, 202 and 429; never
\* on the answer 429 itself.
C9_FailureOnlyByFinalAnswer ==
  (Returned /\ ~success /\ \E i \in 1..Len(posts) : posts[i].status = "429")
    => /\ Len(posts) >= 2
       /\ Last(posts).status \in
            TransportFailures \cup RejectStatuses \cup {"RecursionError"}

C9_Witness ==
  /\ pc = "done"
  /\ ~success
  /\ Len(posts) = 2
  /\ posts[1].status = "429"
  /\ posts[2].status = "403"

\* C10: the list get_new_urls returns has no element of submitted, has only
\* elements of all_urls, misses no element of all_urls that is not in
\* submitted, and has no element twice.
C10_PureSetDifference ==
  (pc \in {"stage", "done"} /\ new_urls # None) =>
    /\ Range(new_urls) \cap submitted_urls = {}
    /\ Range(new_urls) \subseteq Range(all_urls)
    /\ Range(all_urls) \subseteq Range(new_urls) \cup submitted_urls
    /\ \A i, j \in 1..Len(new_urls) : new_urls[i] = new_urls[j] => i = j

C10_Witness ==
  /\ pc = "stage"
  /\ all_urls = <<LocA, LocA, LocB>>
  /\ submitted_urls = {LocB}
  /\ new_urls = <<LocA>>

\* C11: load before any append returns the empty set; an append removes
\* nothing from what load returns and adds every URL it was given, so a load
\* after any appends returns every URL appended.
C11_LedgerOnlyGrows ==
  [][/\ Ledger \subseteq load_submitted_urls(submittedFile')
     /\ submittedFile' # submittedFile =>
          Range(urls_to_submit') \subseteq load_submitted_urls(submittedFile')
     /\ submitted_urls' # submitted_urls =>
          /\ submitted_urls' = Ledger
          /\ run = 0 => submitted_urls' = {}]_vars

C11_Witness ==
  /\ pc = "ledger"
  /\ run = 3
  /\ submitted_urls = {LocA, LocB}
  /\ urls_to_submit = <<LocA>>
  /\ Len(StrippedLines(FileLines(submittedFile.text))) > 3

\* The entries that have a <loc> text, and their texts stripped, in order.
WithLoc(entries) == SelectSeq(entries, LAMBDA e : e # <<>>)

StrippedTexts(entries) ==
  [i \in 1..Len(WithLoc(entries)) |-> Strip(WithLoc(entries)[i])]

\* The URLs of a URL set: of its namespaced entries, or of the others when
\* no namespaced entry has a <loc> text.
UrlsOfLeaf(doc) ==
  IF WithLoc(doc.ns) # <<>> THEN StrippedTexts(doc.ns)
  ELSE StrippedTexts(doc.plain)

IsLeaf(doc) == doc.outcome = "ok" /\ doc.subs = <<>>

Crawled == pc = "crawled"

\* C12 as stated: a URL set with N <url> entries gives N URLs, those of the
\* namespaced entries, or, only when there is no namespaced entry, those of
\* the non-namespaced ones.
C12_OneUrlPerEntry ==
  (Crawled /\ IsLeaf(web[RootUrl])) =>
    LET doc == web[RootUrl]
        used == IF doc.ns # <<>> THEN doc.ns ELSE doc.plain
    IN /\ Len(all_urls) = Len(used)
       /\ \A i \in 1..Len(used) : all_urls[i] = Strip(used[i])

\* C12 as amended: a URL set gives one URL per <url> entry that has a
\* non-empty <loc> text, in document order: those of the namespaced entries
\* or, only when none of these has a <loc> text, those of the non-namespaced
\* entries; never both.
C12_OneUrlPerLoc ==
  (Crawled /\ IsLeaf(web[RootUrl])) =>
    /\ all_urls = UrlsOfLeaf(web[RootUrl])
    /\ Len(all_urls) \in {Len(WithLoc(web[RootUrl].ns)),
                          Len(WithLoc(web[RootUrl].plain))}
    /\ gets = <<RootUrl>>

C12_Witness ==
  /\ Crawled
  /\ web[RootUrl] = Doc(<<LocMissing, LocPadA>>, <<LocB, LocA>>, <<>>)
  /\ all_urls = <<LocA>>

\* The references of a sitemap index that have a <loc> text, stripped.
SubRefs(doc) == StrippedTexts(doc.subs)

\* The URL lists of the referenced URL sets, one after the other.
RECURSIVE ConcatLeaves(_, _)
ConcatLeaves(w, refs) ==
  IF refs = <<>> THEN <<>>
  ELSE UrlsOfLeaf(w[Head(refs)]) \o ConcatLeaves(w, Tail(refs))

RECURSIVE SumOfLeaves(_, _)
SumOfLeaves(w, refs) ==
  IF refs = <<>> THEN 0
  ELSE Len(UrlsOfLeaf(w[Head(refs)])) + SumOfLeaves(w, Tail(refs))

\* C13: for a sitemap index that references K URL sets, fetch returns their
\* URL lists concatenated in the order of the references, M1+...+MK URLs,
\* after one GET of the index and one of each reference in order; when the
\* document has yielded a URL of its own the references are not followed.
C13_IndexConcatenatesLeaves ==
  (Crawled /\ web \in IndexOfLeavesWebs) =>
    LET root == web[RootUrl]
    IN IF UrlsOfLeaf(root) # <<>>
       THEN all_urls = UrlsOfLeaf(root) /\ gets = <<RootUrl>>
       ELSE /\ all_urls = ConcatLeaves(web, SubRefs(root))
            /\ Len(all_urls) = SumOfLeaves(web, SubRefs(root))
            /\ gets = <<RootUrl>> \o SubRefs(root)

C13_Witness ==
  /\ Crawled
  /\ web \in IndexOfLeavesWebs
  /\ web[RootUrl].subs = <<Sub1, LocMissing, Sub2, Sub3>>
  /\ all_urls = <<LocB, LocA, LocC, LocA, LocA>>
  /\ gets = <<RootUrl, Sub1, Sub2, Sub3>>

\* The largest number of <sitemap> entries of a document of w.
MaxSubs(w) ==
  CHOOSE n \in 0..4 :
    /\ \A u \in DOMAIN w : Len(w[u].subs) <= n
    /\ \E u \in DOMAIN w : Len(w[u].subs) = n

\* 1 + b + b^2 + ... + b^d: the calls of a recursion of fan-out b, d deep.
RECURSIVE CallsWithin(_, _)
CallsWithin(b, d) == IF d = 0 THEN 1 ELSE 1 + b * CallsWithin(b, d - 1)

C14_PostsWithinTheLimit ==
  /\ \A i \in DOMAIN posts :
       /\ Len(posts[i].urlList) >= 1
       /\ Len(posts[i].urlList) <= MaxUrlsPerRequest
  /\ pc = "post" => Len(urls) \in 1..MaxUrlsPerRequest
  /\ (pc = "step7" /\ urls_to_submit = <<>>) => (~success /\ posts = <<>>)
  /\ (pc = "step7" /\ urls_to_submit # <<>>) => posts # <<>>

C14_Witness ==
  /\ pc = "step7"
  /\ Len(urls_to_submit) > MaxUrlsPerRequest
  /\ Len(posts) = 2
  /\ posts[1].status = "429"
  /\ Len(posts[2].urlList) = MaxUrlsPerRequest

\* What a sub-sitemap contributes: its URLs, or nothing when its fetch failed.
Contribution(doc) == IF doc.outcome = "ok" THEN UrlsOfLeaf(doc) ELSE <<>>

Fetched == web # <<>>

\* C15: a failed fetch of a sitemap document gives the empty list and the
\* run goes on: when the root fails the run ends there, with no POST and
\* the ledger as it was; when a sub-sitemap of an index fails it contributes
\* nothing, and those before and after it contribute all their URLs.
C15_FailedFetchGivesNothing ==
  /\ (Fetched /\ web[RootUrl].outcome # "ok") =>
       /\ all_urls = <<>>
       /\ gets = <<RootUrl>>
       /\ pc = "done"
       /\ posts = <<>>
       /\ submittedFile = ledgerBefore
  /\ (Fetched /\ web \in TripleWebs) =>
       /\ all_urls = Contribution(web[Sub1]) \o Contribution(web[Sub2])
                       \o Contribution(web[Sub3])
       /\ gets = <<RootUrl, Sub1, Sub2, Sub3>>

C15_Witness ==
  /\ pc = "done"
  /\ web \in TripleWebs
  /\ web[Sub2].outcome = "badxml"
  /\ all_urls = <<LocA, LocC>>
  /\ Len(posts) = 1

\* The 429 answers among the first n POSTs.
RECURSIVE RateLimitedAnswers(_)
RateLimitedAnswers(n) ==
  IF n = 0 THEN 0
  ELSE RateLimitedAnswers(n - 1) + (IF posts[n].status = "429" THEN 1 ELSE 0)

\* C17 as stated: submit_to_indexnow returns failure only on an answer other
\* than 200, 202 and 429 or on a transport failure, however often the
\* endpoint answers 429.
C17_NoFailureFromRateLimitingAlone ==
  (pc = "step7" /\ posts # <<>> /\ ~success) =>
    /\ Last(posts).status \in RejectStatuses \cup TransportFailures
    /\ \E i \in DOMAIN posts : posts[i].status # "429"
                               /\ posts[i].status # "RecursionError"

\* C17 as amended: each 429 is followed, after one cooldown, by a retry of
\* the same batch in a call nested one deeper, and the nesting has the
\* recursion limit as its ceiling: below it the call returns only on an
\* answer other than 429 or a transport failure; at it the attempt raises
\* RecursionError and the call returns failure, having had 429 answers only.
C17_RetriesUpToRecursionLimit ==
  (pc \in {"post", "step7"} /\ urls_to_submit # <<>>) =>
    /\ depth <= RecursionLimit
    /\ RateLimitedAnswers(Len(posts)) = depth
    /\ waits = depth
    /\ \A i \in DOMAIN posts :
         /\ posts[i].urlList = Truncate(urls_to_submit)
         /\ i < Len(posts) => posts[i].status = "429"
    /\ (pc = "step7" /\ ~success) =>
         /\ Last(posts).status \in
              RejectStatuses \cup TransportFailures \cup {"RecursionError"}
         /\ Last(posts).status = "RecursionError" <=> depth = RecursionLimit
    /\ (pc = "post" /\ posts # <<>>) => Last(posts).status = "429"

C17_Witness ==
  /\ pc = "step7"
  /\ ~success
  /\ depth = RecursionLimit
  /\ Len(posts) = RecursionLimit + 1
  /\ \A i \in 1..RecursionLimit : posts[i].status = "429"
  /\ Last(posts).status = "RecursionError"

LedgerBefore == load_submitted_urls(ledgerBefore)

\* The run follows one that was terminated between the 200 or 202 answer
\* and the history update, has fetched the same URLs and has ended.
AfterLostUpdate ==
  /\ pc \in {"step7", "done"}
  /\ prevRun.okList # <<>>
  /\ all_urls = prevRun.all_urls

\* The run has left in the history only URLs of its staged batch, and only
\* once its submission had succeeded; terminated before that, none.
OnlyStagedOfSuccess ==
  /\ LedgerBefore \subseteq Ledger
  /\ Ledger # LedgerBefore => success
  /\ success => (Ledger \ LedgerBefore) \subseteq Range(urls_to_submit)
  /\ (pc = "killed" /\ ~success) => submittedFile = ledgerBefore

\* C18 as stated: a run terminated after the 200 or 202 answer and before
\* the history update leaves the history as it was and the next run, on the
\* same sitemap, POSTs the same URLs again; and no termination leaves in the
\* history a URL that is not of the staged batch of a successful submission.
C18_SameUrlsPostedAgain ==
  /\ AfterLostUpdate =>
       /\ posts # <<>>
       /\ Range(posts[1].urlList) = Range(prevRun.okList)
  /\ OnlyStagedOfSuccess

\* C18 as amended: ... the next run, on the same sitemap, stages the same
\* URLs again and POSTs as many of them as the terminated run had: the same
\* URLs when the staged batch is within the request limit, and otherwise
\* some MaxUrlsPerRequest of the staged batch, which holds those POSTed
\* before.
C18_SameBatchStagedAgain ==
  /\ AfterLostUpdate =>
       /\ posts # <<>>
       /\ Range(prevRun.okList) \subseteq Range(urls_to_submit)
       /\ Range(posts[1].urlList) \subseteq Range(urls_to_submit)
       /\ Len(posts[1].urlList) = Len(prevRun.okList)
       /\ Len(urls_to_submit) <= MaxUrlsPerRequest =>
            Range(posts[1].urlList) = Range(prevRun.okList)
  /\ OnlyStagedOfSuccess

C18_Witness ==
  /\ AfterLostUpdate
  /\ pc = "done"
  /\ success
  /\ Len(urls_to_submit) > MaxUrlsPerRequest
  /\ Range(posts[1].urlList) # Range(prevRun.okList)

\* The run follows one whose submission succeeded and whose history update
\* was made, has fetched the same URLs and has ended.
AfterAppendedRun ==
  /\ pc = "done"
  /\ prevRun.appended
  /\ all_urls = prevRun.all_urls

\* C19: the run after a run that submitted and recorded its URLs, on an
\* unchanged sitemap, finds no new URL, makes no POST and leaves the history
\* as it was, whatever the number of new URLs of the first run.
C19_SecondRunFindsNothing ==
  AfterAppendedRun =>
    /\ new_urls = <<>>
    /\ posts = <<>>
    /\ submittedFile = ledgerBefore

=============================================================================
